---- MODULE Spec2Model ----
(***************************************************************************)
(* Model of src/src/App.tsx (Smart-PDF-I-Gen client): the section          *)
(* segmenter parseSections, the summarize request/response handling of the *)
(* App component, and the admin-token validation.                          *)
(*                                                                         *)
(* Texts are sequences of one-character strings.                           *)
(***************************************************************************)
EXTENDS Integers, Sequences, FiniteSets, TLC

\* An optional value (null, undefined, an absent field) is the empty
\* sequence when absent and a one-element sequence when present.

VARIABLES
    raw,            \* argument handed to parseSections
    sections,       \* value returned by parseSections
    parsed          \* TRUE once parseSections has been applied to raw

VARIABLES
    isDragOver,     \* useState(false)
    uploadedFile,   \* useState<File | null>(null)
    isProcessing,   \* useState(false)
    summaryRaw,     \* useState("")
    aiSummary,      \* useState("")
    processingTime, \* useState("")
    wordCount,      \* useState(0)
    nbPages,        \* useState<number | null>(null)
    error,          \* useState("")
    paywall,        \* useState(false)
    adminOn,        \* useState(false)
    storedToken,    \* localStorage item ADMIN_BYPASS_TOKEN
    requests,       \* POST /api/summarize calls awaiting their response
    checks,         \* GET /auth/check calls awaiting their response
    answered,       \* tokens for which a check came back with admin: true
    last            \* the handler that ran last, the alerts it raised and the
                    \* answer of the summarize call or of the check it
                    \* interpreted

parseVars == <<raw, sections, parsed>>

resultVars == <<summaryRaw, aiSummary, processingTime, wordCount, nbPages, error, paywall>>

adminVars == <<adminOn, storedToken, checks, answered>>

appVars == <<isDragOver, uploadedFile, isProcessing, resultVars, adminVars, requests, last>>

vars == <<parseVars, appVars>>

(***************************************************************************)
(* Bounds of the model.                                                    *)
(***************************************************************************)
\* longest raw text, counted in pieces of Pieces
MaxPieces == 6

\* most summarize calls awaiting their response
MaxRequests == 2

\* most admin checks awaiting their response
MaxChecks == 3

(***************************************************************************)
(* Strings                                                                 *)
(***************************************************************************)
\* String.prototype.trim removes white space and line terminators
IsWhiteSpace(c) == c \in {" ", "\n"}

\* the regex atom "." matches every character but a line terminator
IsLineTerminator(c) == c = "\n"

\* raw.slice(from, to), 0-based, to exclusive
Slice(s, from, to) == SubSeq(s, from + 1, to)

RECURSIVE TrimStart(_)
TrimStart(s) ==
    IF s # <<>> /\ IsWhiteSpace(Head(s)) THEN TrimStart(Tail(s)) ELSE s

RECURSIVE TrimEnd(_)
TrimEnd(s) ==
    IF s # <<>> /\ IsWhiteSpace(s[Len(s)])
    THEN TrimEnd(SubSeq(s, 1, Len(s) - 1))
    ELSE s

Trim(s) == TrimEnd(TrimStart(s))

(***************************************************************************)
(* parseSections                                                           *)
(***************************************************************************)
\* "**" stands at 0-based position i of s
StarsAt(s, i) == i + 2 <= Len(s) /\ s[i + 1] = "*" /\ s[i + 2] = "*"

\* the positions j where the closing "**" of a match opened at i can stand:
\* (.+?) takes at least one character and no line terminator
ClosingAt(s, i) ==
    { j \in (i + 3)..(Len(s) - 2) :
        /\ StarsAt(s, j)
        /\ \A k \in (i + 2)..(j - 1) : ~IsLineTerminator(s[k + 1]) }

Min(S) == CHOOSE x \in S : \A y \in S : x <= y

\* the positions at or after lastIndex where /\*\*(.+?)\*\*/ matches
MatchStarts(s, lastIndex) ==
    { i \in lastIndex..(Len(s) - 1) : StarsAt(s, i) /\ ClosingAt(s, i) # {} }

NoMatch == [index |-> -1, title |-> <<>>, lastIndex |-> 0]

\* regex.exec(raw) with regex.lastIndex = lastIndex: the leftmost match, its
\* lazy group as short as possible; NoMatch stands for null
RegexExec(s, lastIndex) ==
    IF MatchStarts(s, lastIndex) = {}
    THEN NoMatch
    ELSE LET i == Min(MatchStarts(s, lastIndex))
             j == Min(ClosingAt(s, i))
         IN  [index |-> i, title |-> Slice(s, i + 2, j), lastIndex |-> j + 2]

\* a variant that writes the content of the first section
SetLastContentFirst(secs, c) ==
    [secs EXCEPT ![1] = [title |-> secs[1].title, content |-> c]]

\* sections[sections.length - 1].content = c
SetLastContent(secs, c) ==
    [secs EXCEPT ![Len(secs)] = [title |-> secs[Len(secs)].title, content |-> c]]

\* one pass of the while loop of parseSections
RECURSIVE ScanLoop(_, _, _)
ScanLoop(s, lastIndex, secs) ==
    LET match == RegexExec(s, lastIndex)
    IN  IF match = NoMatch
        THEN [sections |-> secs, lastIndex |-> lastIndex]
        ELSE LET closed == IF Len(secs) > 0
                           THEN SetLastContent(secs, Trim(Slice(s, lastIndex, match.index)))
                           ELSE secs
             IN  ScanLoop(s, match.lastIndex,
                          Append(closed, [title |-> match.title, content |-> <<>>]))

\* a variant that trims the text it passes through
PassThroughTrimmed(s) == <<[title |-> <<>>, content |-> Trim(s)]>>

\* the single untitled section returned when no marker is found
PassThrough(s) == <<[title |-> <<>>, content |-> s]>>

parseSections(s) ==
    LET scan == ScanLoop(s, 0, <<>>)
    IN  IF Len(scan.sections) > 0
        THEN SetLastContent(scan.sections, Trim(Slice(s, scan.lastIndex, Len(s))))
        ELSE PassThrough(s)

(***************************************************************************)
(* Values of the application model                                         *)
(***************************************************************************)
Opt(S) == { <<>> } \cup { <<x>> : x \in S }

PdfType == "application/pdf"

FileA == [name |-> "a.pdf", type |-> PdfType]
FileB == [name |-> "b.pdf", type |-> PdfType]
FileC == [name |-> "c.txt", type |-> "text/plain"]

Files == { FileA, FileB, FileC }

\* e.dataTransfer.files, e.target.files
FileLists == { <<>>, <<FileA>>, <<FileB>>, <<FileC>>, <<FileC, FileA>> }

SummaryTexts == { <<>>, <<"s", "\n">> }
AiTexts == { <<>>, <<"*", "*", "T", "*", "*", "x">> }
WordCounts == { 80 }
PageCounts == { 12 }
ServerErrors == { "", "quota" }
Durations == { "1.2s" }

\* res.data of a 2xx answer of POST /api/summarize
SuccessBodies ==
    [summary : Opt(SummaryTexts), ai_summary : Opt(AiTexts),
     nb_words : Opt(WordCounts), nb_pages : Opt(PageCounts), paywall : Opt(BOOLEAN)]

\* err.response.data of a failed POST /api/summarize
ErrorBodies ==
    [paywall : Opt(BOOLEAN), nb_words : Opt(WordCounts), nb_pages : Opt(PageCounts),
     error : Opt(ServerErrors)]

\* err.response: absent when the request never returned
ErrorResponses == Opt(ErrorBodies)

GenericError == "PDF analysis failed. Please try again or use a smaller file."

\* what the user may type into prompt(); absent when the prompt is cancelled
PromptInputs == Opt({ <<>>, <<" ">>, <<"g">>, <<" ", "g">>, <<"b">> })

\* the tokens the server accepts
ValidTokens == { <<"g">> }

\* what localStorage may hold when the page loads
InitialTokens == Opt({ <<"g">>, <<"b">> })

\* the outcomes of GET /auth/check for a token
CheckAnswers(token) ==
    { IF token \in ValidTokens THEN "admin" ELSE "no_admin", "failed" }

RemoveAt(seq, i) == SubSeq(seq, 1, i - 1) \o SubSeq(seq, i + 1, Len(seq))

(***************************************************************************)
(* JavaScript operators on optional fields                                 *)
(***************************************************************************)
\* x || "" on a text
TextOrEmpty(opt) == IF opt = <<>> THEN <<>> ELSE opt[1]

\* x || 0 and x ?? 0 on a number
NumberOrZero(opt) == IF opt = <<>> THEN 0 ELSE opt[1]

\* x ?? null
OrNull(opt) == opt

\* !!x on a boolean
Truthy(opt) == opt # <<>> /\ opt[1]

(***************************************************************************)
(* validateAdmin                                                           *)
(***************************************************************************)
\* a variant that asks the server even when there is no token
ValidateAdminCallAlways(token, origin) ==
    <<[token |-> IF token = <<>> THEN <<>> ELSE token[1], origin |-> origin]>>

\* the check validateAdmin issues for the token it reads from localStorage:
\* none when there is no token
ValidateAdminCall(token, origin) ==
    IF token = <<>> THEN <<>> ELSE <<[token |-> token[1], origin |-> origin]>>

\* a variant that takes every answer of the server for a yes
ValidateAdminResultAnyAnswer(answer) == answer # "failed"

\* the value validateAdmin resolves to
ValidateAdminResult(answer) == answer = "admin"

(***************************************************************************)
(* The App component                                                       *)
(***************************************************************************)
AppInit ==
    /\ isDragOver = FALSE
    /\ uploadedFile = <<>>
    /\ isProcessing = FALSE
    /\ summaryRaw = <<>>
    /\ aiSummary = <<>>
    /\ processingTime = ""
    /\ wordCount = 0
    /\ nbPages = <<>>
    /\ error = ""
    /\ paywall = FALSE
    /\ adminOn = FALSE
    /\ requests = <<>>
    /\ answered = {}
    /\ last = [op |-> "mount", alerts |-> 0, answer |-> <<>>, check |-> ""]

\* useEffect on mount: validateAdmin().then(setAdminOn)
StartupValidation ==
    checks = ValidateAdminCall(storedToken, "startup")

Ran(op) ==
    last' = [op |-> op, alerts |-> 0, answer |-> <<>>, check |-> ""] /\ UNCHANGED parseVars

Interpreted(op, answer) ==
    last' = [op |-> op, alerts |-> 0, answer |-> answer, check |-> ""] /\ UNCHANGED parseVars

handleDragOver ==
    /\ isDragOver' = TRUE
    /\ Ran("handleDragOver")
    /\ UNCHANGED <<uploadedFile, isProcessing, resultVars, adminVars, requests>>

handleDragLeave ==
    /\ isDragOver' = FALSE
    /\ Ran("handleDragLeave")
    /\ UNCHANGED <<uploadedFile, isProcessing, resultVars, adminVars, requests>>

resetAll ==
    /\ summaryRaw' = <<>>
    /\ aiSummary' = <<>>
    /\ error' = ""
    /\ paywall' = FALSE
    /\ nbPages' = <<>>
    /\ wordCount' = 0
    /\ processingTime' = ""

\* a variant without the test of the type of the file
handleDropAnyFile(files) ==
    /\ isDragOver' = FALSE
    /\ IF Len(files) > 0
       THEN uploadedFile' = <<files[1]>> /\ resetAll
       ELSE UNCHANGED <<uploadedFile, resultVars>>
    /\ Ran("handleDrop")
    /\ UNCHANGED <<isProcessing, adminVars, requests>>

handleDrop(files) ==
    /\ isDragOver' = FALSE
    /\ IF Len(files) > 0 /\ files[1].type = PdfType
       THEN uploadedFile' = <<files[1]>> /\ resetAll
       ELSE UNCHANGED <<uploadedFile, resultVars>>
    /\ Ran("handleDrop")
    /\ UNCHANGED <<isProcessing, adminVars, requests>>

handleFileSelect(files) ==
    /\ IF Len(files) > 0
       THEN uploadedFile' = <<files[1]>> /\ resetAll
       ELSE UNCHANGED <<uploadedFile, resultVars>>
    /\ Ran("handleFileSelect")
    /\ UNCHANGED <<isDragOver, isProcessing, adminVars, requests>>

\* onClick of the Refresh button
Refresh ==
    /\ summaryRaw' = <<>>
    /\ aiSummary' = <<>>
    /\ uploadedFile' = <<>>
    /\ error' = ""
    /\ paywall' = FALSE
    /\ nbPages' = <<>>
    /\ wordCount' = 0
    /\ processingTime' = ""
    /\ Ran("Refresh")
    /\ UNCHANGED <<isDragOver, isProcessing, adminVars, requests>>

\* the disabled attribute of the submit button, without the isProcessing part
SubmitDisabledWhenNoFile == uploadedFile = <<>>

\* the disabled attribute of the submit button
SubmitDisabled == uploadedFile = <<>> \/ isProcessing

\* a variant that forwards the token only while adminOn is TRUE
RequestHeadersWhenAdmin == [xAdminToken |-> IF adminOn THEN storedToken ELSE <<>>]

\* the headers of the summarize request
RequestHeaders == [xAdminToken |-> storedToken]

\* handleSummarize up to its await
handleSummarizeStart ==
    /\ uploadedFile # <<>>
    /\ isProcessing' = TRUE
    /\ error' = ""
    /\ paywall' = FALSE
    /\ requests' = Append(requests, [file |-> uploadedFile[1], headers |-> RequestHeaders])
    /\ Ran("handleSummarize")
    /\ UNCHANGED <<isDragOver, uploadedFile, summaryRaw, aiSummary, processingTime,
                   wordCount, nbPages, adminVars>>

\* a click on the submit button
Submit ==
    /\ ~SubmitDisabled
    /\ Len(requests) < MaxRequests
    /\ handleSummarizeStart

\* the try block of handleSummarize after its await
SummarizeSucceeded(body, elapsed) ==
    /\ processingTime' = elapsed
    /\ summaryRaw' = TextOrEmpty(body.summary)
    /\ aiSummary' = TextOrEmpty(body.ai_summary)
    /\ wordCount' = NumberOrZero(body.nb_words)
    /\ nbPages' = OrNull(body.nb_pages)
    /\ paywall' = Truthy(body.paywall)
    /\ UNCHANGED error

\* err?.response?.data?.paywall
PaywallResponse(response) == response # <<>> /\ Truthy(response[1].paywall)

\* a variant that ignores the server's message
ErrorMessageGeneric(response) == GenericError

\* err?.response?.data?.error || "PDF analysis failed. ..."
ErrorMessage(response) ==
    IF response # <<>> /\ response[1].error # <<>> /\ response[1].error[1] # ""
    THEN response[1].error[1]
    ELSE GenericError

\* a variant without the paywall branch
SummarizeFailedAsError(response) ==
    /\ error' = ErrorMessage(response)
    /\ UNCHANGED <<summaryRaw, aiSummary, processingTime, wordCount, nbPages, paywall>>

\* the catch block of handleSummarize
SummarizeFailed(response) ==
    IF PaywallResponse(response)
    THEN /\ paywall' = TRUE
         /\ nbPages' = OrNull(response[1].nb_pages)
         /\ wordCount' = NumberOrZero(response[1].nb_words)
         /\ error' = ""
         /\ UNCHANGED <<summaryRaw, aiSummary, processingTime>>
    ELSE /\ error' = ErrorMessage(response)
         /\ UNCHANGED <<summaryRaw, aiSummary, processingTime, wordCount, nbPages, paywall>>

\* the summarize call i resolves with a 2xx answer
ResolveSuccess(i, body, elapsed) ==
    /\ i \in DOMAIN requests
    /\ requests' = RemoveAt(requests, i)
    /\ SummarizeSucceeded(body, elapsed)
    /\ isProcessing' = FALSE
    /\ Interpreted("summarize_ok", <<body>>)
    /\ UNCHANGED <<isDragOver, uploadedFile, adminVars>>

\* a variant without the finally block
ResolveFailureNoFinally(i, response) ==
    /\ i \in DOMAIN requests
    /\ requests' = RemoveAt(requests, i)
    /\ SummarizeFailed(response)
    /\ Interpreted("summarize_failed", response)
    /\ UNCHANGED <<isDragOver, uploadedFile, isProcessing, adminVars>>

\* the summarize call i throws
ResolveFailure(i, response) ==
    /\ i \in DOMAIN requests
    /\ requests' = RemoveAt(requests, i)
    /\ SummarizeFailed(response)
    /\ isProcessing' = FALSE
    /\ Interpreted("summarize_failed", response)
    /\ UNCHANGED <<isDragOver, uploadedFile, adminVars>>

\* a variant that leaves the token in localStorage
AdminPillOffKeepsToken ==
    /\ adminOn
    /\ adminOn' = FALSE
    /\ Ran("pill_off")
    /\ UNCHANGED <<isDragOver, uploadedFile, isProcessing, resultVars, requests,
                   checks, answered, storedToken>>

\* onClick of the admin pill, adminOn branch
AdminPillOff ==
    /\ adminOn
    /\ storedToken' = <<>>
    /\ adminOn' = FALSE
    /\ Ran("pill_off")
    /\ UNCHANGED <<isDragOver, uploadedFile, isProcessing, resultVars, requests,
                   checks, answered>>

\* t && t.trim()
TokenEntered(input) == input # <<>> /\ input[1] # <<>> /\ Trim(input[1]) # <<>>

\* onClick of the admin pill, prompt branch, up to its await
AdminPillPrompt(input) ==
    /\ ~adminOn
    /\ IF TokenEntered(input)
       THEN /\ Len(checks) < MaxChecks
            /\ storedToken' = <<Trim(input[1])>>
            /\ checks' = checks \o ValidateAdminCall(storedToken', "pill")
       ELSE UNCHANGED <<storedToken, checks>>
    /\ Ran("pill_prompt")
    /\ UNCHANGED <<isDragOver, uploadedFile, isProcessing, resultVars, requests,
                   adminOn, answered>>

\* a variant that removes the token from localStorage when the check is not
\* answered with admin: true
CheckResolvedClearing(i, answer) ==
    /\ i \in DOMAIN checks
    /\ checks' = RemoveAt(checks, i)
    /\ answered' = IF answer = "admin" THEN answered \cup { checks[i].token } ELSE answered
    /\ adminOn' = ValidateAdminResult(answer)
    /\ storedToken' = IF ValidateAdminResult(answer) THEN storedToken ELSE <<>>
    /\ last' = [op |-> IF checks[i].origin = "pill" THEN "pill_checked" ELSE "startup_checked",
                alerts |-> IF checks[i].origin = "pill" /\ ~ValidateAdminResult(answer)
                           THEN 1 ELSE 0,
                answer |-> <<>>, check |-> answer]
    /\ UNCHANGED <<isDragOver, uploadedFile, isProcessing, resultVars, requests>>
    /\ UNCHANGED parseVars

\* the check i resolves: setAdminOn(ok), and for the pill alert("Invalid token.")
CheckResolved(i, answer) ==
    /\ i \in DOMAIN checks
    /\ checks' = RemoveAt(checks, i)
    /\ answered' = IF answer = "admin" THEN answered \cup { checks[i].token } ELSE answered
    /\ adminOn' = ValidateAdminResult(answer)
    /\ last' = [op |-> IF checks[i].origin = "pill" THEN "pill_checked" ELSE "startup_checked",
                alerts |-> IF checks[i].origin = "pill" /\ ~ValidateAdminResult(answer)
                           THEN 1 ELSE 0,
                answer |-> <<>>, check |-> answer]
    /\ UNCHANGED <<isDragOver, uploadedFile, isProcessing, resultVars, requests, storedToken>>
    /\ UNCHANGED parseVars

(***************************************************************************)
(* What the component renders                                              *)
(***************************************************************************)
\* a variant that prefers the plain summary
DisplayTextSummaryFirst == IF summaryRaw # <<>> THEN summaryRaw ELSE aiSummary

\* aiSummary || summaryRaw
DisplayText == IF aiSummary # <<>> THEN aiSummary ELSE summaryRaw

\* the text copyToClipboard writes: (aiSummary || summaryRaw || "").trim(),
\* nothing being written when it is empty
ClipboardText == Trim(DisplayText)

\* {error && <div>...}
ErrorShown == error # ""

\* {paywall && !adminOn && <PaywallNotice />}
PaywallNoticeShown == paywall /\ ~adminOn

\* a variant that renders the sections behind the paywall notice
RenderedSectionsUngated ==
    IF DisplayText # <<>> THEN parseSections(DisplayText) ELSE <<>>

\* {!paywall && ... parseSections(aiSummary || summaryRaw).map(...)}
RenderedSections ==
    IF ~paywall /\ DisplayText # <<>> THEN parseSections(DisplayText) ELSE <<>>

(***************************************************************************)
(* Specifications                                                          *)
(***************************************************************************)
Init ==
    /\ AppInit
    /\ storedToken \in InitialTokens
    /\ StartupValidation
    /\ raw = <<>>
    /\ sections = <<>>
    /\ parsed = FALSE

\* The behaviours of the page in which no token is typed into the prompt of
\* the admin pill: the token localStorage holds at load is checked once and
\* may be dropped with the pill.
NextSummarize ==
    \/ handleDragOver
    \/ handleDragLeave
    \/ \E files \in FileLists : handleDrop(files)
    \/ \E files \in FileLists : handleFileSelect(files)
    \/ Refresh
    \/ Submit
    \/ \E i \in DOMAIN requests : \E body \in SuccessBodies, elapsed \in Durations :
          ResolveSuccess(i, body, elapsed)
    \/ \E i \in DOMAIN requests : \E response \in ErrorResponses :
          ResolveFailure(i, response)
    \/ AdminPillOff
    \/ \E i \in DOMAIN checks : \E answer \in CheckAnswers(checks[i].token) :
          CheckResolved(i, answer)

\* The behaviours of the page in which only the admin pill is used.
NextAdmin ==
    \/ AdminPillOff
    \/ \E input \in PromptInputs : AdminPillPrompt(input)
    \/ \E i \in DOMAIN checks : \E answer \in CheckAnswers(checks[i].token) :
          CheckResolved(i, answer)

\* Every handler of the page.
Next == NextSummarize \/ NextAdmin

\* The whole page.  The handlers of the admin pill leave the document and the
\* result state alone, and those of the summarize pipeline only read the
\* stored token, so the two parts are checked apart: SpecSummarize and
\* SpecAdmin are the behaviours of Spec that stay within one part.
Spec == Init /\ [][Next]_vars

SpecSummarize == Init /\ [][NextSummarize]_vars

SpecAdmin == Init /\ [][NextAdmin]_vars

\* the promise of a pending axios.post settles: the await in handleSummarize
\* returns or throws
RequestSettles ==
    \E i \in DOMAIN requests :
        \/ \E body \in SuccessBodies, elapsed \in Durations : ResolveSuccess(i, body, elapsed)
        \/ \E response \in ErrorResponses : ResolveFailure(i, response)

\* SpecSummarize in which no promise of a request stays pending for ever
SpecSummarizeFair == SpecSummarize /\ WF_vars(RequestSettles)

\* The handlers that read or write isProcessing and the document: the drag
\* indicator and the admin pill are left alone.
NextPipeline ==
    \/ \E files \in FileLists : handleDrop(files)
    \/ \E files \in FileLists : handleFileSelect(files)
    \/ Refresh
    \/ Submit
    \/ RequestSettles

\* the behaviours of SpecSummarizeFair that stay within these handlers
SpecPipelineFair == Init /\ [][NextPipeline]_vars /\ WF_vars(RequestSettles)

(***************************************************************************)
(* Raw texts handed to parseSections                                       *)
(***************************************************************************)
Pieces == { <<"*">>, <<" ">>, <<"\n">>, <<"a">>, <<"*", "*", "b", "*", "*">> }

RECURSIVE TextsOf(_)
TextsOf(n) ==
    IF n = 0 THEN { <<>> }
    ELSE LET shorter == TextsOf(n - 1)
         IN  shorter \cup { t \o p : t \in shorter, p \in Pieces }

RawTexts == TextsOf(MaxPieces)

InitParse ==
    /\ raw \in RawTexts
    /\ sections = <<>>
    /\ parsed = FALSE
    /\ AppInit
    /\ storedToken = <<>>
    /\ checks = <<>>

ApplyParseSections ==
    /\ ~parsed
    /\ sections' = parseSections(raw)
    /\ parsed' = TRUE
    /\ UNCHANGED <<raw, appVars>>

NextParse == ApplyParseSections

SpecParse == InitParse /\ [][NextParse]_vars

(***************************************************************************)
(* Properties of parseSections (checked under SpecParse)                   *)
(***************************************************************************)
\* the text contains no title marker
HasNoMarker(s) == MatchStarts(s, 0) = {}

\* titles and contents of the sections, concatenated in order
RECURSIVE JoinSections(_)
JoinSections(secs) ==
    IF secs = <<>> THEN <<>>
    ELSE Head(secs).title \o Head(secs).content \o JoinSections(Tail(secs))

\* the text from position from on, the "**" pairs of every marker removed
RECURSIVE StripMarkers(_, _)
StripMarkers(s, from) ==
    LET match == RegexExec(s, from)
    IN  IF match = NoMatch
        THEN Slice(s, from, Len(s))
        ELSE Slice(s, from, match.index) \o match.title
                \o StripMarkers(s, match.lastIndex)

\* the characters of the text that are not white space, in order
NonBlank(s) == SelectSeq(s, LAMBDA c : ~IsWhiteSpace(c))

\* C7: segmentation is a pure re-partition: the titles and contents of the
\* sections returned by parseSections, concatenated in order, give back the
\* input without its marker characters; no text other than marker characters
\* and trimmed white space is missing.  White space is left out of the
\* comparison, so that the statement does not depend on where trimming
\* applies: every other character of the input must be found in the sections.
C7_RoundTrip ==
    parsed => NonBlank(JoinSections(sections)) = NonBlank(StripMarkers(raw, 0))

\* C8 as stated: a text without marker yields one section with an empty
\* title and the trimmed text as content.
C8_NoMarkerTrimmed ==
    (parsed /\ HasNoMarker(raw)) =>
        sections = <<[title |-> <<>>, content |-> Trim(raw)]>>

\* C8 as amended: a text without marker yields exactly one section, with an
\* empty title and the text itself, untrimmed, as content.
C8_NoMarkerPassThrough ==
    (parsed /\ HasNoMarker(raw)) =>
        /\ Len(sections) = 1
        /\ sections[1].title = <<>>
        /\ sections[1].content = raw

\* a text without marker, with white space at an end and a stray "**"
C8_Witness ==
    /\ parsed
    /\ HasNoMarker(raw)
    /\ raw # Trim(raw)
    /\ \E i \in 0..Len(raw) : StarsAt(raw, i)
    /\ Len(sections) = 1

(***************************************************************************)
(* Properties of the summarize pipeline (checked under SpecSummarize)      *)
(***************************************************************************)
\* the handlers that interpret a response of the summarize call
ResolveOps == { "summarize_ok", "summarize_failed" }

\* the last step interpreted a 2xx answer, held in last.answer[1]
AfterSuccess == last.op = "summarize_ok"

\* the last step interpreted a failure, its response held in last.answer
AfterFailure == last.op = "summarize_failed"

\* C1: a summarize call built for a document other than the one selected
\* now is ignored when it resolves: the step that takes it off the pending
\* calls changes nothing of the result state.
C1_StaleResolutionIgnored ==
    [][\A i \in DOMAIN requests :
          (/\ requests' = RemoveAt(requests, i)
           /\ uploadedFile # <<>>
           /\ requests[i].file # uploadedFile[1])
          => UNCHANGED resultVars]_vars

\* The four outcome kinds, as predicates of the result state.
OutcomeSuccess == DisplayText # <<>> /\ ~paywall /\ error = ""
OutcomePaywallBlocked == paywall /\ error = ""
OutcomeError == error # "" /\ ~paywall /\ RenderedSections = <<>>
OutcomeEmpty == DisplayText = <<>> /\ ~paywall /\ error = ""

OutcomesHolding ==
    { k \in { "Success", "PaywallBlocked", "Error", "Empty" } :
        \/ k = "Success" /\ OutcomeSuccess
        \/ k = "PaywallBlocked" /\ OutcomePaywallBlocked
        \/ k = "Error" /\ OutcomeError
        \/ k = "Empty" /\ OutcomeEmpty }

\* C3: once a response has been interpreted, exactly one outcome kind holds
\* of the result state; an error message is never shown with the sections of
\* an earlier summary.
C3_ExactlyOneOutcome ==
    last.op \in ResolveOps => Cardinality(OutcomesHolding) = 1

\* C4: a failed summarize call whose error body carries paywall = true
\* leaves the paywall flag set, the error message empty, and the page and
\* word counts those of the error body (absent, and 0, when the body has
\* none), whatever the result state was before: the outcome is
\* PaywallBlocked and not Error.
C4_PaywalledFailure ==
    (AfterFailure /\ PaywallResponse(last.answer)) =>
        /\ paywall
        /\ error = ""
        /\ nbPages = last.answer[1].nb_pages
        /\ last.answer[1].nb_words # <<>> => wordCount = last.answer[1].nb_words[1]
        /\ last.answer[1].nb_words = <<>> => wordCount = 0
        /\ OutcomePaywallBlocked
        /\ ~OutcomeError

\* a paywalled failure has replaced the counts while the summary of an
\* earlier answer is still held
C4_Witness ==
    /\ AfterFailure
    /\ PaywallResponse(last.answer)
    /\ paywall
    /\ error = ""
    /\ nbPages = <<12>>
    /\ wordCount = 80
    /\ summaryRaw # <<>>

\* C5: a successful summarize call with paywall = true in its body sets the
\* paywall flag, renders no section whatever texts the body holds, and
\* stores the page and word counts of the body.
C5_PaywalledSuccess ==
    (AfterSuccess /\ Truthy(last.answer[1].paywall)) =>
        /\ paywall
        /\ OutcomePaywallBlocked
        /\ RenderedSections = <<>>
        /\ nbPages = last.answer[1].nb_pages
        /\ last.answer[1].nb_words # <<>> => wordCount = last.answer[1].nb_words[1]
        /\ last.answer[1].nb_words = <<>> => wordCount = 0

\* a paywalled success whose body held a summary text
C5_Witness ==
    /\ AfterSuccess
    /\ Truthy(last.answer[1].paywall)
    /\ paywall
    /\ last.answer[1].ai_summary # <<>>
    /\ aiSummary # <<>>
    /\ RenderedSections = <<>>
    /\ nbPages = <<12>>
    /\ wordCount = 80

\* C6: at most one summarize call is pending, and while one is pending or
\* no document is selected the submit button is disabled.
C6_AtMostOneInFlight ==
    /\ Len(requests) <= 1
    /\ requests # <<>> => SubmitDisabled
    /\ uploadedFile = <<>> => SubmitDisabled

\* a call is pending for a document that has been replaced since
C6_Witness ==
    /\ Len(requests) = 1
    /\ uploadedFile # <<>>
    /\ requests[1].file # uploadedFile[1]
    /\ SubmitDisabled

\* C10: a failed summarize call without a true paywall flag in its error
\* body, or without a response at all, shows the error string of the body
\* when it has a non-empty one and the generic message otherwise, and
\* leaves the paywall flag false.
C10_FailureIsError ==
    (AfterFailure /\ ~PaywallResponse(last.answer)) =>
        /\ ~paywall
        /\ error # ""
        /\ IF last.answer # <<>> /\ last.answer[1].error \notin { <<>>, <<"">> }
           THEN error = last.answer[1].error[1]
           ELSE error = GenericError

\* a failure without a response has shown the generic message
C10_Witness ==
    /\ AfterFailure
    /\ last.answer = <<>>
    /\ error = GenericError
    /\ ~paywall
    /\ ~isProcessing

(***************************************************************************)
(* Properties of the admin pill (checked under SpecAdmin)                  *)
(***************************************************************************)
\* C2: adminOn is true only if localStorage holds a token and the server
\* answered admin: true for that very token.
C2_AdminOnOnlyForCheckedToken ==
    adminOn => (storedToken # <<>> /\ storedToken[1] \in answered)

\* C9: when the check issued for a token typed into the prompt is rejected
\* (admin: false, or a failure), adminOn is false afterwards, one alert is
\* raised, and the stored token is left as it is: it is the token typed in,
\* unless the pill was used again in the meantime.
C9_RejectedTokenStays ==
    [][/\ \A input \in PromptInputs :
             (AdminPillPrompt(input) /\ TokenEntered(input))
             => storedToken' = <<Trim(input[1])>>
       /\ \A i \in DOMAIN checks : \A answer \in CheckAnswers(checks[i].token) :
             (CheckResolved(i, answer) /\ checks[i].origin = "pill" /\ answer # "admin")
             => /\ ~adminOn'
                /\ last'.alerts = 1
                /\ storedToken' = storedToken]_vars

\* the token "b" was typed in and rejected, and is still stored
C9_Witness ==
    /\ last.op = "pill_checked"
    /\ last.alerts = 1
    /\ ~adminOn
    /\ storedToken = << <<"b">> >>
    /\ checks = <<>>

(***************************************************************************)
(* Further properties of the summarize pipeline (SpecSummarize)            *)
(***************************************************************************)
\* a text field of a body is absent or the empty string
NoText(opt) == opt \in { <<>>, << <<>> >> }

\* ai_summary when non-empty, otherwise summary, otherwise the empty string
ChosenText(body) ==
    IF ~NoText(body.ai_summary) THEN body.ai_summary[1]
    ELSE IF ~NoText(body.summary) THEN body.summary[1]
    ELSE <<>>

\* C11: after a successful answer without paywall flag, the text displayed,
\* segmented and (trimmed) copied is ai_summary when it is non-empty,
\* otherwise summary, otherwise the empty string; an answer with an empty
\* ai_summary and a non-empty summary is a Success showing the summary.
C11_DisplayTextChoice ==
    (AfterSuccess /\ ~Truthy(last.answer[1].paywall)) =>
        /\ DisplayText = ChosenText(last.answer[1])
        /\ RenderedSections = IF ChosenText(last.answer[1]) = <<>> THEN <<>>
                              ELSE parseSections(ChosenText(last.answer[1]))
        /\ ClipboardText = Trim(ChosenText(last.answer[1]))
        /\ ChosenText(last.answer[1]) # <<>> => OutcomeSuccess
        /\ ChosenText(last.answer[1]) = <<>> => OutcomeEmpty

\* an answer with ai_summary "" and a summary has been interpreted
C11_Witness ==
    /\ AfterSuccess
    /\ last.answer[1].ai_summary = << <<>> >>
    /\ last.answer[1].summary = << <<"s", "\n">> >>
    /\ last.answer[1].paywall = <<FALSE>>
    /\ DisplayText = <<"s", "\n">>
    /\ ClipboardText = <<"s">>
    /\ OutcomeSuccess

(***************************************************************************)
(* Further properties of the admin session (SpecAdmin)                     *)
(***************************************************************************)
CheckedOps == { "pill_checked", "startup_checked" }

\* C12: validateAdmin fails closed. On mount without a stored token no check
\* is issued and adminOn is false, with a token exactly one check carrying it
\* is issued; later a step issues at most one check, only with a token in
\* storage, and the check carries that token; a check resolves adminOn to
\* TRUE only on an answer whose admin field is truthy, and to FALSE on a
\* failure of the call.
C12_ValidateAdminFailsClosed ==
    [][ /\ last.op = "mount" =>
              IF storedToken = <<>>
              THEN checks = <<>> /\ ~adminOn
              ELSE checks = <<[token |-> storedToken[1], origin |-> "startup"]>>
        /\ Len(checks') > Len(checks) =>
              /\ last'.op = "pill_prompt"
              /\ storedToken' # <<>>
              /\ checks' = Append(checks, [token |-> storedToken'[1], origin |-> "pill"])
        /\ last'.op \in CheckedOps =>
              /\ Len(checks') = Len(checks) - 1
              /\ adminOn' <=> last'.check = "admin"
              /\ last'.check = "failed" => ~adminOn'
      ]_vars

\* the check of a token the server accepts failed in transport
C12_Witness ==
    /\ last.op = "startup_checked"
    /\ last.check = "failed"
    /\ storedToken = << <<"g">> >>
    /\ ~adminOn
    /\ checks = <<>>

\* C13: toggling admin off while adminOn is TRUE removes the token from
\* storage and sets adminOn to FALSE in that one step, which issues no check
\* and no summarize request.
C13_ToggleOffClears ==
    [][ (adminOn /\ last'.op = "pill_off") =>
            /\ storedToken' = <<>>
            /\ ~adminOn'
            /\ checks' = checks
            /\ requests' = requests
      ]_vars

\* a validated session has been toggled off
C13_Witness ==
    /\ last.op = "pill_off"
    /\ storedToken = <<>>
    /\ ~adminOn
    /\ <<"g">> \in answered

\* C14: the request handleSummarize has just built carries x-admin-token
\* exactly when localStorage holds a token, with that token as its value,
\* whatever adminOn is.
C14_TokenForwarded ==
    last.op = "handleSummarize" =>
        /\ requests # <<>>
        /\ LET headers == requests[Len(requests)].headers
           IN  /\ headers.xAdminToken # <<>> <=> storedToken # <<>>
               /\ storedToken # <<>> => headers.xAdminToken[1] = storedToken[1]

\* a token the server rejected at load is forwarded
C14_Witness ==
    /\ last.op = "handleSummarize"
    /\ storedToken = << <<"b">> >>
    /\ ~adminOn
    /\ checks = <<>>
    /\ requests # <<>>
    /\ requests[Len(requests)].headers.xAdminToken = << <<"b">> >>

\* C15: every answer of a summarize request, a failure of any kind included,
\* is interpreted by a step that ends with isProcessing FALSE, and when the
\* promise of every request settles, a page that is processing always comes
\* back to a state that is not processing, where the submit button is enabled
\* as soon as a document is selected.
C15_Recoverable ==
    /\ [](last.op \in ResolveOps => ~isProcessing)
    /\ isProcessing ~> (~isProcessing /\ (uploadedFile # <<>> => ~SubmitDisabled))

\* a request failed with a message of the server and the button is enabled again
C15_Witness ==
    /\ AfterFailure
    /\ error = "quota"
    /\ ~isProcessing
    /\ requests = <<>>
    /\ uploadedFile # <<>>
    /\ ~SubmitDisabled

(***************************************************************************)
(* Further properties of parseSections (SpecParse)                         *)
(***************************************************************************)
\* the title markers of the text from position from on, in order
RECURSIVE Markers(_, _)
Markers(s, from) ==
    LET match == RegexExec(s, from)
    IN  IF match = NoMatch THEN <<>>
        ELSE <<match>> \o Markers(s, match.lastIndex)

\* the text before the first title marker, trimmed
LeadingText(s) == Trim(Slice(s, 0, Markers(s, 0)[1].index))

\* C16: the text before the first title marker is folded into a leading
\* section: a text with k >= 1 markers and non-blank text before the first
\* of them yields k+1 sections, the first holding the trimmed leading text,
\* followed by one section per marker.
C16_LeadingTextFolded ==
    (parsed /\ Markers(raw, 0) # <<>> /\ LeadingText(raw) # <<>>) =>
        /\ Len(sections) = Len(Markers(raw, 0)) + 1
        /\ sections[1].content = LeadingText(raw)
        /\ \A i \in 1..Len(Markers(raw, 0)) :
              sections[i + 1].title = Markers(raw, 0)[i].title

\* C18: a text with k >= 1 title markers yields exactly k sections in marker
\* order, equal titles kept apart; section i has the title of the i-th
\* marker and, as content, the trimmed text from the end of that marker to
\* the start of the next one, or to the end of the text for the last marker.
C18_OneSectionPerMarker ==
    (parsed /\ Markers(raw, 0) # <<>>) =>
        LET markers == Markers(raw, 0)
            k == Len(markers)
        IN  /\ Len(sections) = k
            /\ \A i \in 1..k :
                  /\ sections[i].title = markers[i].title
                  /\ sections[i].content =
                        Trim(Slice(raw, markers[i].lastIndex,
                                   IF i < k THEN markers[i + 1].index ELSE Len(raw)))

\* two markers with the same title, each followed by text
C18_Witness ==
    /\ parsed
    /\ Len(Markers(raw, 0)) = 2
    /\ Len(sections) = 2
    /\ sections[1].title = sections[2].title
    /\ sections[1].content # <<>>
    /\ sections[2].content # <<>>
    /\ sections[1].content # sections[2].content

\* C17 as stated: the token is removed from storage when a remote validation
\* of it fails: after a check, at load or after a token was entered, that
\* the server rejects, storage holds no token.
C17_RejectedTokenRemoved ==
    (last.op \in CheckedOps /\ last.check = "no_admin") => storedToken = <<>>

\* C17 as amended: the stored token is written only by the prompt of the
\* admin pill, with the trimmed non-empty text entered, and removed only by
\* toggling admin off; a check the server rejects, or that fails, leaves
\* storage as it is.
C17_TokenLifecycle ==
    [][ /\ storedToken' # storedToken =>
              \/ last'.op = "pill_prompt" /\ storedToken' # <<>> /\ storedToken'[1] # <<>>
              \/ last'.op = "pill_off" /\ storedToken' = <<>>
        /\ last'.op \in CheckedOps => storedToken' = storedToken
      ]_vars

\* the server rejected the token entered in the prompt, which is still stored
C17_Witness ==
    /\ last.op = "pill_checked"
    /\ last.check = "no_admin"
    /\ storedToken = << <<"b">> >>
    /\ ~adminOn

(***************************************************************************)
(* Selection of a document and the result state (SpecSummarize)            *)
(***************************************************************************)
\* no summary, no AI summary, no error, no paywall, no page count, no word
\* count and no processing time
ResultStateEmpty ==
    /\ summaryRaw = <<>>
    /\ aiSummary = <<>>
    /\ error = ""
    /\ ~paywall
    /\ nbPages = <<>>
    /\ wordCount = 0
    /\ processingTime = ""

\* C19: a drop whose first file is a PDF, and a selection of at least one
\* file in the file input, make the first file the selected document, reset
\* the whole result state and leave adminOn, the stored token and
\* isProcessing unchanged; a drop without file or whose first file is not a
\* PDF changes nothing but isDragOver.
C19_SelectionResets ==
    [][ last'.op \in { "handleDrop", "handleFileSelect" } =>
          \A files \in FileLists :
            /\ ( \/ handleDrop(files) /\ Len(files) > 0 /\ files[1].type = PdfType
                 \/ handleFileSelect(files) /\ Len(files) > 0 ) =>
                    /\ uploadedFile' = <<files[1]>>
                    /\ ResultStateEmpty'
                    /\ UNCHANGED <<adminOn, storedToken, isProcessing, requests, checks>>
            /\ ( handleDrop(files) /\ (Len(files) = 0 \/ files[1].type # PdfType) ) =>
                    UNCHANGED <<uploadedFile, resultVars, isProcessing, adminVars, requests>>
      ]_vars

\* a document was selected while a request was in flight and admin was on
C19_Witness ==
    /\ last.op = "handleFileSelect"
    /\ uploadedFile = <<FileB>>
    /\ ResultStateEmpty
    /\ isProcessing
    /\ requests # <<>>
    /\ requests[1].file = FileA
    /\ adminOn
    /\ storedToken = << <<"g">> >>

\* C20: whenever no document is selected, the result state is empty, also
\* when Refresh is pressed while a summarize request is in flight and that
\* request resolves afterwards.
C20_NoDocumentNoResult ==
    uploadedFile = <<>> => ResultStateEmpty

====
